---- MODULE Spec2Model ----
(***************************************************************************)
(* TSID generator (src/src/lib.rs): the bit layout derived from a          *)
(* configuration, and the lock-free generate() loop over the two atomics   *)
(* last_timestamp (AtomicU64) and sequence (AtomicU16).                    *)
(*                                                                         *)
(* A u64 is modelled as the set of its set bit positions (a subset of      *)
(* 0..63), so that shifts, masks and the numeric order keep all 64 bits.   *)
(* A u16 is an integer in 0..65535.                                        *)
(*                                                                         *)
(* Every atomic operation of generate() (clock read, load, compare_exchange,*)
(* store, fetch_add) is one step of the calling thread; the steps of       *)
(* different threads interleave freely and every clock read may return any *)
(* reading, so the clock can stall and move backward.                      *)
(***************************************************************************)
EXTENDS Integers, Sequences, FiniteSets, TLC

\* ------------------------------------------------------------ constants
TIMESTAMP_BITS == 42
TOTAL_NODE_AND_SEQUENCE_BITS == 22
DEFAULT_NODE_BITS == 10
\* number of values of a u16 (node_id, the masks, AtomicU16 sequence)
U16_RANGE == 65536
\* number of bits of a u16: an overflowing shift amount is taken modulo this
U16_BITS == 16

\* ------------------------------------------------------------ bounds
\* wall-clock readings are custom_epoch + 1 .. custom_epoch + MaxClock
MaxClock == 2
\* generate() calls started in one behaviour
MaxCalls == 3
\* in the concurrent specifications fetch_add is followed while sequence is below this
SeqCap == 3
\* the custom epoch of the modelled configuration, in milliseconds
ModelEpoch == 5

\* ------------------------------------------------------------ u64 as bit sets
Bits64 == 0..63

Max(S) == CHOOSE x \in S : \A y \in S : y <= x

\* the u64 with value n, for 0 <= n < 2^31
U64(n) == {i \in 0..30 : (n \div (2^i)) % 2 = 1}

RECURSIVE SumPow(_)
SumPow(S) == IF S = {} THEN 0 ELSE LET i == Max(S) IN 2^i + SumPow(S \ {i})

\* `x as u16`: the low 16 bits as an integer
AsU16(x) == SumPow(x \cap (0..15))

\* `x << k` on u64 for k < 64: bits shifted out are lost
Shl64(x, k) == {i + k : i \in x} \cap Bits64

\* `x >> k` on u64
Shr64(x, k) == {i - k : i \in {j \in x : j >= k}}

And64(x, y) == x \cap y

Or64(x, y) == x \cup y

\* (1u64 << n) - 1
Mask64(n) == 0..(n - 1)

\* x < y as unsigned 64-bit numbers: the highest differing bit is set in y
Lt64(x, y) == x # y /\ Max((x \ y) \cup (y \ x)) \in y

Le64(x, y) == x = y \/ Lt64(x, y)

\* ------------------------------------------------------------ builds
\* overflow checks are a property of the build profile: with them an
\* overflowing shift or subtraction panics, without them it wraps
Builds == {"debug", "release"}

\* `1 << k` where the result type is u16 (lines 94, 95): the shift amount must
\* be below 16; otherwise the build panics or masks the amount to 4 bits
Shl16One(k, build) ==
    IF k < U16_BITS THEN [ok |-> TRUE, v |-> (2^k) % U16_RANGE]
    ELSE IF build = "debug" THEN [ok |-> FALSE, v |-> 0]
    ELSE [ok |-> TRUE, v |-> (2^(k % U16_BITS)) % U16_RANGE]

\* ------------------------------------------------------------ configuration
\* TsidConfig::builder().node_bits(bits).custom_epoch(epoch).build(); ok is
\* FALSE when the assertion of node_bits panics
build_config(bits, epoch) ==
    [ok |-> bits > 0 /\ bits <= 20,
     node_bits |-> bits,
     sequence_bits |-> TOTAL_NODE_AND_SEQUENCE_BITS - bits,
     custom_epoch |-> epoch]

\* create_bit_config with the node field left at bit 0
create_bit_config_node_unshifted(config, build) ==
    LET s == Shl16One(config.sequence_bits, build)
        n == Shl16One(config.node_bits, build)
    IN  [ok |-> s.ok /\ n.ok,
         node_shift |-> 0,
         timestamp_shift |-> config.node_bits + config.sequence_bits,
         sequence_mask |-> s.v - 1,
         node_mask |-> n.v - 1,
         timestamp_mask |-> Mask64(TIMESTAMP_BITS),
         max_sequence |-> s.v - 1,
         max_node |-> n.v - 1]

create_bit_config(config, build) ==
    LET node_shift == config.sequence_bits
        timestamp_shift == config.node_bits + config.sequence_bits
        s == Shl16One(config.sequence_bits, build)
        n == Shl16One(config.node_bits, build)
        sequence_mask == s.v - 1
        node_mask == n.v - 1
        timestamp_mask == Mask64(TIMESTAMP_BITS)
    IN  [ok |-> s.ok /\ n.ok,
         node_shift |-> node_shift,
         timestamp_shift |-> timestamp_shift,
         sequence_mask |-> sequence_mask,
         node_mask |-> node_mask,
         timestamp_mask |-> timestamp_mask,
         max_sequence |-> sequence_mask,
         max_node |-> node_mask]

\* TsidGenerator::with_config: the fields of the new generator, or ok = FALSE
\* when construction panics
with_config(id, config, build) ==
    LET bc == create_bit_config(config, build)
    IN  [ok |-> bc.ok /\ id <= bc.max_node,
         node_id |-> id,
         sequence |-> 0,
         last_timestamp |-> U64(0),
         config |-> config,
         bit_config |-> bc]

max_node_id(bc) == bc.max_node

max_sequence(bc) == bc.max_sequence

\* ------------------------------------------------------------ packing
\* create_tsid without the node term
create_tsid_no_node(bc, id, timestamp, seq) ==
    Or64(Shl64(And64(timestamp, bc.timestamp_mask), bc.timestamp_shift),
         And64(U64(seq), U64(bc.sequence_mask)))

\* create_tsid with the node masked by the sequence mask
create_tsid_node_seq_mask(bc, id, timestamp, seq) ==
    Or64(Or64(Shl64(And64(timestamp, bc.timestamp_mask), bc.timestamp_shift),
              Shl64(And64(U64(id), U64(bc.sequence_mask)), bc.node_shift)),
         And64(U64(seq), U64(bc.sequence_mask)))

create_tsid(bc, id, timestamp, seq) ==
    Or64(Or64(Shl64(And64(timestamp, bc.timestamp_mask), bc.timestamp_shift),
              Shl64(And64(U64(id), U64(bc.node_mask)), bc.node_shift)),
         And64(U64(seq), U64(bc.sequence_mask)))

extract_timestamp(bc, tsid) == And64(Shr64(tsid, bc.timestamp_shift), bc.timestamp_mask)

extract_node(bc, tsid) == AsU16(And64(Shr64(tsid, bc.node_shift), U64(bc.node_mask)))

extract_sequence(bc, tsid) == AsU16(And64(tsid, U64(bc.sequence_mask)))

extract_from_tsid(bc, tsid) ==
    <<extract_timestamp(bc, tsid), extract_node(bc, tsid), extract_sequence(bc, tsid)>>

\* ------------------------------------------------------------ clock
\* TsidGenerator::current_time with the wall clock reading `now` (milliseconds
\* since the Unix epoch): now - custom_epoch in u64; below the epoch the
\* subtraction overflows, which panics or wraps to 2^64 - (custom_epoch - now)
current_time(now, config, build) ==
    IF now >= config.custom_epoch
    THEN [ok |-> TRUE, v |-> U64(now - config.custom_epoch)]
    ELSE IF build = "debug" THEN [ok |-> FALSE, v |-> U64(0)]
    ELSE [ok |-> TRUE, v |-> Bits64 \ U64(config.custom_epoch - now - 1)]

\* the sequence path packing the clock reading also when it is behind
current_ts_clock(timestamp, last) == timestamp

\* line 198: the timestamp packed by the sequence path
current_ts(timestamp, last) == IF Lt64(timestamp, last) THEN last ELSE timestamp

\* the bound check letting the value max_sequence through
seq_in_range_inclusive(seq, bc) == seq <= bc.max_sequence

\* line 201: whether the fetched sequence value may be used
seq_in_range(seq, bc) == seq < bc.max_sequence

\* ------------------------------------------------------------ state
Gens == {1, 2}
Threads == {1, 2}

VARIABLES
    build,           \* the build profile of the program
    node_id,         \* TsidGenerator.node_id, per generator instance
    config,          \* TsidGenerator.config
    bit_config,      \* TsidGenerator.bit_config
    sequence,        \* TsidGenerator.sequence (AtomicU16)
    last_timestamp,  \* TsidGenerator.last_timestamp (AtomicU64)
    target,          \* the generator instance each thread calls generate() on
    active,          \* the threads that call generate()
    clock,           \* the wall-clock readings the environment can produce
    seqCap,          \* fetch_add is followed while sequence is below this
    pc,              \* per thread: the next atomic step of generate()
    timestamp,       \* per thread: local `timestamp` of generate()
    last,            \* per thread: local `last`
    seq,             \* per thread: local `seq`
    spun,            \* per thread: this call discarded an exhausted sequence value
    begin,           \* per thread: number of calls that had returned when this call began
    log,             \* the calls that returned, in the order they returned
    lay              \* the layout harness: a configuration, triples packed and extracted

genVars == <<build, node_id, config, bit_config, sequence, last_timestamp>>
envVars == <<target, active, clock, seqCap>>
thrVars == <<pc, timestamp, last, seq, spun, begin>>
vars == <<genVars, envVars, thrVars, log, lay>>

Started == Len(log) + Cardinality({t \in Threads : pc[t] # "idle"})

\* generate() returns tsid: the call is appended to the log
Return(t, tsid, ts, path, s) ==
    /\ log' = Append(log, [gen |-> target[t], thr |-> t, id |-> tsid, ts |-> ts,
                           clk |-> timestamp[t], path |-> path, seq |-> s,
                           begin |-> begin[t], spun |-> spun[t],
                           cur |-> last_timestamp[target[t]]])
    /\ pc' = [pc EXCEPT ![t] = "idle"]

\* line 180: let timestamp = self.current_time(); the first read of a call
\* is where the call begins
ReadClock(t) ==
    /\ t \in active
    /\ pc[t] \in {"idle", "time"}
    /\ pc[t] = "idle" => Started < MaxCalls
    /\ \E now \in clock :
         LET r == current_time(now, config[target[t]], build)
         IN  /\ timestamp' = [timestamp EXCEPT ![t] = r.v]
             /\ pc' = [pc EXCEPT ![t] = IF r.ok THEN "load" ELSE "panic"]
    /\ begin' = [begin EXCEPT ![t] = IF pc[t] = "idle" THEN Len(log) ELSE @]
    /\ spun' = [spun EXCEPT ![t] = IF pc[t] = "idle" THEN FALSE ELSE @]
    /\ UNCHANGED <<genVars, envVars, last, seq, log, lay>>

\* the branch of line 184 taken also when timestamp equals last
LoadLastInclusive(t) ==
    /\ pc[t] = "load"
    /\ last' = [last EXCEPT ![t] = last_timestamp[target[t]]]
    /\ pc' = [pc EXCEPT ![t] =
              IF Le64(last_timestamp[target[t]], timestamp[t]) THEN "cas" ELSE "inc"]
    /\ UNCHANGED <<genVars, envVars, timestamp, seq, spun, begin, log, lay>>

\* lines 181, 184: let last = self.last_timestamp.load(Acquire); if timestamp > last
LoadLast(t) ==
    /\ pc[t] = "load"
    /\ last' = [last EXCEPT ![t] = last_timestamp[target[t]]]
    /\ pc' = [pc EXCEPT ![t] =
              IF Lt64(last_timestamp[target[t]], timestamp[t]) THEN "cas" ELSE "inc"]
    /\ UNCHANGED <<genVars, envVars, timestamp, seq, spun, begin, log, lay>>

\* a plain store of timestamp in place of the compare_exchange
CasStore(t) ==
    /\ pc[t] = "cas"
    /\ last_timestamp' = [last_timestamp EXCEPT ![target[t]] = timestamp[t]]
    /\ pc' = [pc EXCEPT ![t] = "store"]
    /\ UNCHANGED <<build, node_id, config, bit_config, sequence, envVars,
                   timestamp, last, seq, spun, begin, log, lay>>

\* lines 185-194: compare_exchange(last, timestamp); on failure `continue`
Cas(t) ==
    /\ pc[t] = "cas"
    /\ IF last_timestamp[target[t]] = last[t]
       THEN /\ last_timestamp' = [last_timestamp EXCEPT ![target[t]] = timestamp[t]]
            /\ pc' = [pc EXCEPT ![t] = "store"]
       ELSE /\ pc' = [pc EXCEPT ![t] = "time"]
            /\ UNCHANGED last_timestamp
    /\ UNCHANGED <<build, node_id, config, bit_config, sequence, envVars,
                   timestamp, last, seq, spun, begin, log, lay>>

\* lines 191-192: self.sequence.store(0, Release); return create_tsid(timestamp, 0)
StoreSeq(t) ==
    /\ pc[t] = "store"
    /\ sequence' = [sequence EXCEPT ![target[t]] = 0]
    /\ Return(t, create_tsid(bit_config[target[t]], node_id[target[t]], timestamp[t], 0),
              timestamp[t], "swap", 0)
    /\ UNCHANGED <<build, node_id, config, bit_config, last_timestamp, envVars,
                   timestamp, last, seq, spun, begin, lay>>

\* the sequence counter after fetch_add(1) on the AtomicU16 (wrapping);
\* counter values above cap are not told apart from cap
fetch_add(s, cap) == IF s >= cap THEN s ELSE (s + 1) % U16_RANGE

\* generate() that, having discarded a sequence value, increments again
\* without reading the clock
FetchAddNoReread(t) ==
    /\ pc[t] = "inc"
    /\ sequence[target[t]] < seqCap \/ ~seq_in_range(sequence[target[t]], bit_config[target[t]])
    /\ LET g == target[t]
           ts == current_ts(timestamp[t], last[t])
           s == sequence[g]
       IN  /\ sequence' = [sequence EXCEPT ![g] = fetch_add(s, seqCap)]
           /\ seq' = [seq EXCEPT ![t] = s]
           /\ IF seq_in_range(s, bit_config[g])
              THEN /\ Return(t, create_tsid(bit_config[g], node_id[g], ts, s + 1),
                             ts, "seq", s)
                   /\ UNCHANGED spun
              ELSE /\ pc' = [pc EXCEPT ![t] = "inc"]
                   /\ spun' = [spun EXCEPT ![t] = TRUE]
                   /\ UNCHANGED log
    /\ UNCHANGED <<build, node_id, config, bit_config, last_timestamp, envVars,
                   timestamp, last, begin, lay>>

\* lines 198-203: current_ts, seq = self.sequence.fetch_add(1, AcqRel) on the
\* AtomicU16 (wrapping), return create_tsid(current_ts, seq + 1) if
\* seq < max_sequence, else the next iteration of the loop. A value at
\* seqCap is fetched only to be discarded.
FetchAdd(t) ==
    /\ pc[t] = "inc"
    /\ sequence[target[t]] < seqCap \/ ~seq_in_range(sequence[target[t]], bit_config[target[t]])
    /\ LET g == target[t]
           ts == current_ts(timestamp[t], last[t])
           s == sequence[g]
       IN  /\ sequence' = [sequence EXCEPT ![g] = fetch_add(s, seqCap)]
           /\ seq' = [seq EXCEPT ![t] = s]
           /\ IF seq_in_range(s, bit_config[g])
              THEN /\ Return(t, create_tsid(bit_config[g], node_id[g], ts, s + 1),
                             ts, "seq", s)
                   /\ UNCHANGED spun
              ELSE /\ pc' = [pc EXCEPT ![t] = "time"]
                   /\ spun' = [spun EXCEPT ![t] = TRUE]
                   /\ UNCHANGED log
    /\ UNCHANGED <<build, node_id, config, bit_config, last_timestamp, envVars,
                   timestamp, last, begin, lay>>

Next ==
    \E t \in Threads :
        \/ ReadClock(t)
        \/ LoadLast(t)
        \/ Cas(t)
        \/ StoreSeq(t)
        \/ FetchAdd(t)

\* ------------------------------------------------------------ initial states
\* the layout harness is not used by the generator specifications
LayIdle == [stage |-> "none"]

\* the locals of a thread that has not called generate() yet
ThreadsIdle ==
    /\ pc = [t \in Threads |-> "idle"]
    /\ timestamp = [t \in Threads |-> U64(0)]
    /\ last = [t \in Threads |-> U64(0)]
    /\ seq = [t \in Threads |-> 0]
    /\ spun = [t \in Threads |-> FALSE]
    /\ begin = [t \in Threads |-> 0]
    /\ log = <<>>

\* the node_bits values of the configurations of the generator specifications
SpecNodeBits == {5, DEFAULT_NODE_BITS}

\* wall-clock readings not before the custom epoch
ClockAhead == {ModelEpoch + d : d \in 1..MaxClock}

\* generators g1 (instance 1) and g2 (instance 2), as constructed by with_config
Constructed(b, g1, g2) ==
    /\ g1.ok /\ g2.ok
    /\ build = b
    /\ node_id = [g \in Gens |-> IF g = 1 THEN g1.node_id ELSE g2.node_id]
    /\ config = [g \in Gens |-> IF g = 1 THEN g1.config ELSE g2.config]
    /\ bit_config = [g \in Gens |-> IF g = 1 THEN g1.bit_config ELSE g2.bit_config]
    /\ sequence = [g \in Gens |-> IF g = 1 THEN g1.sequence ELSE g2.sequence]
    /\ last_timestamp = [g \in Gens |-> IF g = 1 THEN g1.last_timestamp ELSE g2.last_timestamp]

\* the node identifiers tried for a configuration: both ends of its range
NodeIds(bits, b) ==
    LET bc == create_bit_config(build_config(bits, ModelEpoch), b)
    IN  IF bc.ok THEN {0, bc.max_node} ELSE {0}

\* one generator shared by all threads
Init ==
    /\ \E b \in Builds, bits \in SpecNodeBits :
         \E id \in NodeIds(bits, b) :
            LET g == with_config(id, build_config(bits, ModelEpoch), b)
            IN  Constructed(b, g, g)
    /\ target = [t \in Threads |-> 1]
    /\ active = Threads
    /\ clock = ClockAhead
    /\ seqCap = SeqCap
    /\ ThreadsIdle
    /\ lay = LayIdle

Spec == Init /\ [][Next]_vars

\* one step of thread t inside generate()
Step(t) ==
    ReadClock(t) \/ LoadLast(t) \/ Cas(t) \/ StoreSeq(t) \/ FetchAdd(t)

\* a clock read that returns a timestamp above the current last_timestamp
ReadAhead(t) ==
    ReadClock(t) /\ Lt64(last_timestamp[target[t]], timestamp'[t])

\* every calling thread keeps being scheduled, and a thread that reads the
\* clock again and again eventually reads a value above last_timestamp
Fairness ==
    \A t \in Threads : WF_vars(Step(t)) /\ SF_vars(ReadAhead(t))

\* one generator shared by all threads, built in release with the narrow
\* configuration, whose sequence is exhausted within MaxCalls calls; the
\* counter is followed up to the first value generate() discards
InitLive ==
    /\ \E bits \in SpecNodeBits \ {DEFAULT_NODE_BITS} :
         LET g == with_config(0, build_config(bits, ModelEpoch), "release")
         IN  Constructed("release", g, g)
    /\ target = [t \in Threads |-> 1]
    /\ active = Threads
    /\ clock = ClockAhead
    /\ seqCap = max_sequence(bit_config[1]) + 1
    /\ ThreadsIdle
    /\ lay = LayIdle

SpecLive == InitLive /\ [][Next]_vars /\ Fairness

\* one generator called by a single thread; the sequence counter runs over
\* the whole range of the AtomicU16
InitSingle ==
    /\ \E b \in Builds, bits \in SpecNodeBits :
         \E id \in NodeIds(bits, b) :
            LET g == with_config(id, build_config(bits, ModelEpoch), b)
            IN  Constructed(b, g, g)
    /\ target = [t \in Threads |-> 1]
    /\ active = {1}
    /\ clock = ClockAhead
    /\ seqCap = U16_RANGE
    /\ ThreadsIdle
    /\ lay = LayIdle

SpecSingle == InitSingle /\ [][Next]_vars

\* wall-clock readings from the custom epoch itself onward
ClockFromEpoch == {ModelEpoch + d : d \in 0..MaxClock}

\* one generator called by a single thread, the clock reading the custom
\* epoch or later
InitFirst ==
    /\ \E b \in Builds, bits \in SpecNodeBits :
         \E id \in NodeIds(bits, b) :
            LET g == with_config(id, build_config(bits, ModelEpoch), b)
            IN  Constructed(b, g, g)
    /\ target = [t \in Threads |-> 1]
    /\ active = {1}
    /\ clock = ClockFromEpoch
    /\ seqCap = SeqCap
    /\ ThreadsIdle
    /\ lay = LayIdle

SpecFirst == InitFirst /\ [][Next]_vars

\* wall-clock readings from one millisecond before the custom epoch onward
ClockAround == {ModelEpoch - 1} \cup ClockFromEpoch

\* one generator called by a single thread while the wall clock may read a
\* time before the custom epoch
InitEarly ==
    /\ \E b \in Builds, bits \in SpecNodeBits :
         \E id \in NodeIds(bits, b) :
            LET g == with_config(id, build_config(bits, ModelEpoch), b)
            IN  Constructed(b, g, g)
    /\ target = [t \in Threads |-> 1]
    /\ active = {1}
    /\ clock = ClockAround
    /\ seqCap = SeqCap
    /\ ThreadsIdle
    /\ lay = LayIdle

SpecEarly == InitEarly /\ [][Next]_vars

\* two generators built with the same configuration and different node
\* identifiers, each called by its own thread
InitNodes ==
    /\ \E b \in Builds, bits \in SpecNodeBits :
         \E id1, id2 \in NodeIds(bits, b) \cup {1} :
            /\ id1 # id2
            /\ Constructed(b, with_config(id1, build_config(bits, ModelEpoch), b),
                              with_config(id2, build_config(bits, ModelEpoch), b))
    /\ target = [t \in Threads |-> t]
    /\ active = Threads
    /\ clock = ClockAhead
    /\ seqCap = SeqCap
    /\ ThreadsIdle
    /\ lay = LayIdle

SpecNodes == InitNodes /\ [][Next]_vars

\* ------------------------------------------------------------ clone
\* the instance clone() is called on; the clone made by thread t occupies
\* instance target[t]
Original == 1

\* line 135: AtomicU16::new(self.sequence.load(Relaxed)), read while other
\* threads may be inside generate() on the original
CloneSeq(t) ==
    /\ t \notin active
    /\ pc[t] = "idle"
    /\ target[t] # Original
    /\ seq' = [seq EXCEPT ![t] = sequence[Original]]
    /\ pc' = [pc EXCEPT ![t] = "clone"]
    /\ UNCHANGED <<genVars, envVars, timestamp, last, spun, begin, log, lay>>

\* a clone that shares the cells of the original instead of copying them
CloneLastShared(t) ==
    /\ pc[t] = "clone"
    /\ target' = [target EXCEPT ![t] = Original]
    /\ active' = active \cup {t}
    /\ pc' = [pc EXCEPT ![t] = "idle"]
    /\ UNCHANGED <<genVars, clock, seqCap, timestamp, last, seq, spun, begin, log, lay>>

\* lines 132-140: the new TsidGenerator, with last_timestamp loaded from the
\* original (line 136) and the other fields copied; thread t then calls
\* generate() on the clone
CloneLast(t) ==
    /\ pc[t] = "clone"
    /\ LET c == target[t]
       IN  /\ node_id' = [node_id EXCEPT ![c] = node_id[Original]]
           /\ sequence' = [sequence EXCEPT ![c] = seq[t]]
           /\ last_timestamp' = [last_timestamp EXCEPT ![c] = last_timestamp[Original]]
           /\ config' = [config EXCEPT ![c] = config[Original]]
           /\ bit_config' = [bit_config EXCEPT ![c] = bit_config[Original]]
    /\ active' = active \cup {t}
    /\ pc' = [pc EXCEPT ![t] = "idle"]
    /\ UNCHANGED <<build, target, clock, seqCap, timestamp, last, seq, spun, begin, log, lay>>

NextClone ==
    \/ Next
    \/ \E t \in Threads : CloneSeq(t) \/ CloneLast(t)

\* thread 1 calls generate() on the original; thread 2 clones it at some
\* moment and calls generate() on its clone
InitClone ==
    /\ \E b \in Builds, bits \in SpecNodeBits :
         \E id \in NodeIds(bits, b) :
            LET g == with_config(id, build_config(bits, ModelEpoch), b)
            IN  Constructed(b, g, g)
    /\ target = [t \in Threads |-> t]
    /\ active = {Original}
    /\ clock = ClockAhead
    /\ seqCap = SeqCap
    /\ ThreadsIdle
    /\ lay = LayIdle

SpecClone == InitClone /\ [][NextClone]_vars

\* ------------------------------------------------------------ layout harness
\* the largest value of an n-bit field that a u16 argument can carry
FieldMax(n) == IF n >= U16_BITS THEN U16_RANGE - 1 ELSE 2^n - 1

LayoutTimestamps == {U64(1), Mask64(TIMESTAMP_BITS), Bits64}

\* the value of an n-bit field with only its highest bit set, as a u16
FieldHigh(n) == IF n >= U16_BITS THEN 2^(U16_BITS - 1) ELSE 2^(n - 1)

LayoutNodes(bc, cfg) ==
    {0, bc.max_node, FieldMax(cfg.node_bits), FieldHigh(cfg.node_bits)}

LayoutSequences(bc, cfg) ==
    {0, bc.max_sequence, FieldMax(cfg.sequence_bits), FieldHigh(cfg.sequence_bits)}

\* TsidGenerator::with_config(0, builder().node_bits(bits).build())
LayoutBuild ==
    /\ lay.stage = "input"
    /\ LET cfg == build_config(lay.bits, ModelEpoch)
           g == with_config(0, cfg, lay.build)
       IN  lay' = [stage |-> IF cfg.ok /\ g.ok THEN "built" ELSE "panic",
                   build |-> lay.build, bits |-> lay.bits,
                   config |-> cfg, bit_config |-> g.bit_config]
    /\ UNCHANGED <<genVars, envVars, thrVars, log>>

\* two triples packed with the shifts and masks of the layout (lines 220-222)
LayoutPack ==
    /\ lay.stage = "built"
    /\ \E ta, tb \in LayoutTimestamps :
         \E na, nb \in LayoutNodes(lay.bit_config, lay.config) :
            \E sa, sb \in LayoutSequences(lay.bit_config, lay.config) :
                lay' = [stage |-> "packed",
                        build |-> lay.build, bits |-> lay.bits,
                        config |-> lay.config, bit_config |-> lay.bit_config,
                        a |-> <<ta, na, sa>>, b |-> <<tb, nb, sb>>,
                        ida |-> create_tsid(lay.bit_config, na, ta, sa),
                        idb |-> create_tsid(lay.bit_config, nb, tb, sb)]
    /\ UNCHANGED <<genVars, envVars, thrVars, log>>

\* extract_from_tsid on both identifiers
LayoutExtract ==
    /\ lay.stage = "packed"
    /\ lay' = [stage |-> "done",
               build |-> lay.build, bits |-> lay.bits,
               config |-> lay.config, bit_config |-> lay.bit_config,
               a |-> lay.a, b |-> lay.b, ida |-> lay.ida, idb |-> lay.idb,
               outa |-> extract_from_tsid(lay.bit_config, lay.ida),
               outb |-> extract_from_tsid(lay.bit_config, lay.idb)]
    /\ UNCHANGED <<genVars, envVars, thrVars, log>>

\* node identifiers around the largest one of the configuration, as a u16
ConstructNodes(cfg) ==
    {id \in {0, 1,
             create_bit_config(cfg, "release").max_node,
             create_bit_config(cfg, "release").max_node + 1,
             FieldMax(cfg.node_bits), FieldMax(cfg.node_bits) + 1,
             2^cfg.node_bits - 1, 2^cfg.node_bits} : id < U16_RANGE}

\* TsidGenerator::with_config(id, builder().node_bits(bits).build())
LayoutConstruct ==
    /\ lay.stage = "input"
    /\ LET cfg == build_config(lay.bits, ModelEpoch)
       IN  \E id \in ConstructNodes(cfg) :
              lay' = [stage |-> "constructed",
                      build |-> lay.build, bits |-> lay.bits,
                      config |-> cfg, id |-> id,
                      ok |-> cfg.ok /\ with_config(id, cfg, lay.build).ok]
    /\ UNCHANGED <<genVars, envVars, thrVars, log>>

NextLayout == LayoutBuild \/ LayoutPack \/ LayoutExtract \/ LayoutConstruct

\* every node_bits value the builder accepts, in both builds; no thread
\* calls generate()
InitLayout ==
    /\ \E b \in Builds, bits \in 1..20 : lay = [stage |-> "input", build |-> b, bits |-> bits]
    /\ LET g == with_config(0, build_config(DEFAULT_NODE_BITS, ModelEpoch), "release")
       IN  Constructed("release", g, g)
    /\ target = [t \in Threads |-> 1]
    /\ active = {}
    /\ clock = ClockAhead
    /\ seqCap = SeqCap
    /\ ThreadsIdle

SpecLayout == InitLayout /\ [][NextLayout]_vars

\* ------------------------------------------------------------ claims
Calls == 1..Len(log)

\* call i returned before call j began
Before(i, j) == i <= log[j].begin

TsField(i) == extract_timestamp(bit_config[log[i].gen], log[i].id)

SeqField(i) == extract_sequence(bit_config[log[i].gen], log[i].id)

NodeField(i) == extract_node(bit_config[log[i].gen], log[i].id)

\* C1: no two generate() calls on one shared generator instance return the
\* same identifier, under every interleaving and every clock behaviour.
C1_Unique ==
    \A i, j \in Calls :
        (i # j /\ log[i].gen = log[j].gen) => log[i].id # log[j].id

\* C2: if call A returns before call B begins on the same instance, A's
\* identifier is numerically strictly less than B's.
C2_Monotonic ==
    \A i, j \in Calls :
        (log[i].gen = log[j].gen /\ Before(i, j)) => Lt64(log[i].id, log[j].id)

\* C3: when one thread calls generate() repeatedly on one instance, every
\* returned identifier is strictly greater than the one returned before it,
\* whether the clock advances, stalls or moves backward.
C3_SingleThreadIncreasing ==
    \A i \in Calls : i + 1 \in Calls => Lt64(log[i].id, log[i + 1].id)

\* C4: if call A returns before call B begins on the same instance, the
\* timestamp field of B's identifier is not below that of A's, also when the
\* clock read by B is lower than last_timestamp.
C4_TimestampNeverBack ==
    \A i, j \in Calls :
        (log[i].gen = log[j].gen /\ Before(i, j)) => Le64(TsField(i), TsField(j))

\* a call that returned after an earlier call, having read a clock below the
\* timestamp it packed (the clock had moved backward)
C4_Witness ==
    \E i, j \in Calls :
        /\ log[i].gen = log[j].gen /\ Before(i, j)
        /\ Lt64(log[j].clk, log[j].ts)
        /\ TsField(j) = TsField(i)

\* C5: every identifier returned by a generator constructed with node
\* identifier K has node field K.
C5_NodePreserved ==
    \A i \in Calls : NodeField(i) = node_id[log[i].gen]

\* identifiers of a generator with the largest node identifier, returned by
\* both paths of generate()
C5_Witness ==
    \E i, j \in Calls :
        /\ node_id[log[i].gen] = max_node_id(bit_config[log[i].gen])
        /\ node_id[log[i].gen] > 0
        /\ log[i].gen = log[j].gen
        /\ log[i].path = "swap" /\ log[j].path = "seq"
        /\ SeqField(j) > 0

\* C6: the sequence field of every returned identifier is at most
\* max_sequence(), and no fetched value seq >= max_sequence is packed.
C6_SequenceBound ==
    \A i \in Calls :
        /\ SeqField(i) <= max_sequence(bit_config[log[i].gen])
        /\ log[i].path = "seq" =>
              /\ log[i].seq < max_sequence(bit_config[log[i].gen])
              /\ SeqField(i) = log[i].seq + 1
        /\ log[i].path = "swap" => SeqField(i) = 0

\* a call that discarded an exhausted sequence value and returned after the
\* clock advanced, following an identifier with the largest sequence field
C6_Witness ==
    \E i, j \in Calls :
        /\ log[i].gen = log[j].gen /\ i < j
        /\ SeqField(i) = max_sequence(bit_config[log[i].gen])
        /\ SeqField(i) > 0
        /\ log[j].spun

\* C7: two generators built with the same configuration and different node
\* identifiers never return the same identifier.
C7_UniqueAcrossNodes ==
    \A i, j \in Calls : log[i].gen # log[j].gen => log[i].id # log[j].id

\* the two generators returned identifiers with the same timestamp and the
\* same sequence field
C7_Witness ==
    \E i, j \in Calls :
        /\ log[i].gen # log[j].gen
        /\ TsField(i) = TsField(j)
        /\ SeqField(i) = SeqField(j)

\* a triple within the ranges of the configured field widths
InRange(cfg, x) ==
    /\ x[1] \subseteq Mask64(TIMESTAMP_BITS)
    /\ x[2] <= FieldMax(cfg.node_bits)
    /\ x[3] <= FieldMax(cfg.sequence_bits)

\* C8: for every node_bits in 1..20, every triple with timestamp <=
\* 2^42 - 1, node <= 2^node_bits - 1 and sequence <= 2^sequence_bits - 1 is
\* returned unchanged by extract_from_tsid after packing.
C8_RoundTrip ==
    lay.stage = "done" =>
        /\ InRange(lay.config, lay.a) => lay.outa = lay.a
        /\ InRange(lay.config, lay.b) => lay.outb = lay.b

\* the numeric order of two identifiers follows the order of their fields
\* (timestamp, node, sequence), compared in that order
FieldsBefore(x, y) ==
    \/ Lt64(x[1], y[1])
    \/ x[1] = y[1] /\ x[2] < y[2]
    \/ x[1] = y[1] /\ x[2] = y[2] /\ x[3] < y[3]

\* C9: of two identifiers packed under the same configuration the one with
\* the smaller timestamp field is numerically smaller, whatever the node
\* and sequence fields; with equal timestamps node decides, then sequence.
C9_NumericOrder ==
    lay.stage = "done" =>
        /\ Lt64(lay.outa[1], lay.outb[1]) => Lt64(lay.ida, lay.idb)
        /\ FieldsBefore(lay.outa, lay.outb) <=> Lt64(lay.ida, lay.idb)

\* the identifier with the smaller timestamp field has the larger node and
\* sequence fields
C9_Witness ==
    /\ lay.stage = "done"
    /\ Lt64(lay.outa[1], lay.outb[1])
    /\ lay.outa[2] > lay.outb[2]
    /\ lay.outa[3] > lay.outb[3]
    /\ lay.bits = DEFAULT_NODE_BITS

\* C10: for every node_bits from 1 to 20 a generator built from the
\* configuration reports max_node_id() = 2^node_bits - 1 and max_sequence()
\* = 2^(22 - node_bits) - 1, with node_shift = 22 - node_bits and
\* timestamp_shift = 22.
C10_DerivedLayout ==
    lay.stage = "built" =>
        /\ max_node_id(lay.bit_config) = 2^lay.bits - 1
        /\ max_sequence(lay.bit_config) = 2^(TOTAL_NODE_AND_SEQUENCE_BITS - lay.bits) - 1
        /\ lay.bit_config.node_shift = TOTAL_NODE_AND_SEQUENCE_BITS - lay.bits
        /\ lay.bit_config.timestamp_shift = TOTAL_NODE_AND_SEQUENCE_BITS

\* C11: with_config(node_id, config) fails whenever node_id is above the
\* max_node of the configuration, 2^node_bits - 1, and succeeds for every
\* node_id from 0 to that max_node inclusive.
C11_ConstructionRange ==
    lay.stage = "constructed" => (lay.ok <=> lay.id <= 2^lay.bits - 1)

\* C12: the first generate() call on a freshly constructed generator, with
\* no concurrent call, returns an identifier whose fields are (clock reading
\* - custom_epoch, node_id, 0), for every clock reading not earlier than
\* custom_epoch.
C12_FirstIdentifier ==
    Len(log) >= 1 =>
        /\ TsField(1) = log[1].clk
        /\ NodeField(1) = node_id[log[1].gen]
        /\ SeqField(1) = 0

\* calls i and i + 1 of one instance are consecutive: the later one began
\* after the earlier one returned, and no other call on the instance ran
\* between the begin of the earlier and the return of the later
Consecutive(i) ==
    /\ i \in Calls /\ i + 1 \in Calls
    /\ log[i].gen = log[i + 1].gen
    /\ Before(i, i + 1)
    /\ \A k \in Calls \ {i, i + 1} :
          log[k].gen = log[i].gen => (k <= log[i].begin \/ log[k].begin >= i + 1)
    /\ \A t \in Threads :
          (target[t] = log[i].gen /\ pc[t] \notin {"idle", "panic"}) => begin[t] >= i + 1

\* C13: of two consecutive calls on one instance that return identifiers
\* with different timestamp fields, the later one returns sequence field 0.
C13_ResetOnAdvance ==
    \A i \in Calls :
        (Consecutive(i) /\ TsField(i) # TsField(i + 1)) => SeqField(i + 1) = 0

\* the tick advanced between two consecutive calls after an identifier with
\* a sequence field above 0
C13_Witness ==
    \E i \in Calls :
        /\ Consecutive(i)
        /\ TsField(i) # TsField(i + 1)
        /\ SeqField(i) > 0

\* C14: of two consecutive calls on one instance that return identifiers
\* with the same timestamp field, the later sequence field is the earlier
\* one plus 1 (a fresh generator called twice in one tick yields 0 then 1).
C14_IncrementWithinTick ==
    \A i \in Calls :
        (Consecutive(i) /\ TsField(i) = TsField(i + 1)) =>
            SeqField(i + 1) = SeqField(i) + 1

\* the clock can read a timestamp above last_timestamp of instance g
CanAdvance(g) ==
    \E now \in clock :
        LET r == current_time(now, config[g], build)
        IN  r.ok /\ Lt64(last_timestamp[g], r.v)

C16_CloneIndependent ==
    [][\A t \in Threads :
          /\ (pc[t] = "clone" /\ pc'[t] = "idle") =>
                /\ sequence'[t] = seq[t]
                /\ last_timestamp'[t] = last_timestamp[Original]
                /\ node_id'[t] = node_id[Original]
                /\ sequence'[Original] = sequence[Original]
                /\ last_timestamp'[Original] = last_timestamp[Original]
          /\ (pc[t] # "clone" /\ pc'[t] # pc[t]) =>
                \A g \in Gens \ {t} :
                    /\ sequence'[g] = sequence[g]
                    /\ last_timestamp'[g] = last_timestamp[g]]_vars

\* the original and its clone returned the same identifier
C16_Witness ==
    \E i, j \in Calls :
        /\ log[i].thr = Original /\ log[j].thr # Original
        /\ log[j].gen # Original
        /\ log[i].id = log[j].id

\* the returned calls of the instance of call i with the timestamp field of
\* call i
SameTick(i) ==
    {j \in Calls : log[j].gen = log[i].gen /\ TsField(j) = TsField(i)}

\* C17: generate() calls return at most max_sequence + 1 identifiers with
\* one timestamp T in total; further calls in that tick keep retrying,
\* however many times they increment the sequence counter again, and return
\* nothing until the clock reads above T.
C17_ExhaustionBlocksTick ==
    \A i \in Calls :
        Cardinality(SameTick(i)) <= max_sequence(bit_config[log[i].gen]) + 1

\* C18: whenever a call returns an identifier through the sequence path
\* with timestamp T, last_timestamp was still T at the moment the call
\* incremented the sequence counter: a call that loaded last = T and was
\* overtaken by a thread advancing last_timestamp returns nothing stamped T.
C18_NoSupersededTick ==
    \A i \in Calls : log[i].path = "seq" => log[i].cur = log[i].ts

\* the reset of the sequence counter that was the latest one on the
\* instance when call i made its last atomic step: the latest earlier
\* return through the compare_exchange path
LastReset(i) ==
    {k \in Calls :
        /\ k < i /\ log[k].gen = log[i].gen /\ log[k].path = "swap"
        /\ \A j \in Calls :
              (k < j /\ j < i /\ log[j].gen = log[i].gen) => log[j].path # "swap"}

\* C19: no call obtains a sequence number for tick T from the counter of an
\* earlier tick between the compare_exchange that advanced last_timestamp
\* to T and the store of 0: every sequence number issued for T was counted
\* from the reset performed for T.
C19_AtomicAdvance ==
    \A i \in Calls :
        log[i].path = "seq" => \E k \in LastReset(i) : log[k].ts = log[i].ts

\* C20: last_timestamp never decreases: under every interleaving and clock
\* behaviour each write replaces it by a strictly greater value, by a
\* compare_exchange from the loaded value last to a reading timestamp > last,
\* and a failed compare_exchange leaves last_timestamp and sequence unchanged.
C20_LastTimestampMonotone ==
    [][\A t \in Threads :
          LET g == target[t]
          IN  /\ last_timestamp'[g] # last_timestamp[g] =>
                    Lt64(last_timestamp[g], last_timestamp'[g])
              /\ (pc[t] = "cas" /\ pc'[t] = "store") =>
                    /\ last_timestamp[g] = last[t]
                    /\ last_timestamp'[g] = timestamp[t]
                    /\ Lt64(last[t], timestamp[t])
              /\ (pc[t] = "cas" /\ pc'[t] = "time") =>
                    /\ last_timestamp'[g] = last_timestamp[g]
                    /\ sequence'[g] = sequence[g]]_vars

\* a call whose compare_exchange failed because another thread had advanced
\* last_timestamp past the value it loaded
C20_Witness ==
    \E t \in Threads :
        /\ pc[t] = "time" /\ ~spun[t]
        /\ Lt64(last[t], last_timestamp[target[t]])
        /\ Lt64(last[t], timestamp[t])

\* the timestamps current_time() yields for instance g from readings not
\* before custom_epoch
EpochTimes(g) ==
    {U64(now - config[g].custom_epoch) :
        now \in {n \in clock : n >= config[g].custom_epoch}}

\* C21: a generate() call that reads a wall-clock time below custom_epoch
\* fails fatally and returns no identifier: the subtraction never wraps to a
\* large 64-bit timestamp that a call goes on with, that is stored in
\* last_timestamp or that is packed into an identifier.
C21_PreEpochFatal ==
    /\ \A t \in Threads :
          pc[t] \in {"load", "cas", "inc", "store", "time"} =>
              timestamp[t] \in EpochTimes(target[t])
    /\ \A g \in Gens : last_timestamp[g] \in EpochTimes(g) \cup {U64(0)}
    /\ \A i \in Calls : log[i].ts \in EpochTimes(log[i].gen) \cup {U64(0)}

\* C22: for every tick T at most one call on an instance returns an
\* identifier with timestamp T and sequence 0, and it is the call whose
\* compare_exchange advanced last_timestamp to T; the sequence path only
\* returns sequence values from 1 to max_sequence.
C22_OneZeroPerTick ==
    \A i \in Calls :
        /\ SeqField(i) = 0 =>
              /\ log[i].path = "swap"
              /\ log[i].ts = log[i].clk
              /\ \A j \in SameTick(i) \ {i} : SeqField(j) # 0
        /\ log[i].path = "seq" =>
              SeqField(i) \in 1..max_sequence(bit_config[log[i].gen])

\* a call returned sequence 0 for a tick after another call had already
\* returned a sequence number of that tick
C22_Witness ==
    \E i, j \in Calls :
        /\ j < i /\ j \in SameTick(i)
        /\ SeqField(i) = 0 /\ log[j].path = "seq"

====
